---- MODULE Spec2Model ----
(***************************************************************************)
(* Model of find_church_emails.py: the cached fetcher, the link            *)
(* discoverer, the email extractor, the per-seed URL processor, the batch  *)
(* runner over asyncio.as_completed, and the table export that follows.    *)
(*                                                                         *)
(* Python str values are sequences of one-character strings, so that       *)
(* lower(), substring tests and the email regular expression are computed  *)
(* character by character.                                                 *)
(***************************************************************************)
EXTENDS Integers, Sequences, FiniteSets, TLC

(***************************************************************************)
(* Bounds of the model.                                                    *)
(***************************************************************************)
MaxSeeds == 2
MaxExpire == 1
MaxList == 2
MaxPages == 1

(***************************************************************************)
(* Characters and strings.                                                 *)
(***************************************************************************)
LowerAlphabet == <<"a","b","c","d","e","f","g","h","i","j","k","l","m","n","o","p","q","r","s","t","u","v","w","x","y","z">>
UpperAlphabet == <<"A","B","C","D","E","F","G","H","I","J","K","L","M","N","O","P","Q","R","S","T","U","V","W","X","Y","Z">>
Digits == {"0","1","2","3","4","5","6","7","8","9"}
Letters == {LowerAlphabet[i] : i \in 1..26} \cup {UpperAlphabet[i] : i \in 1..26}

Range(s) == {s[i] : i \in DOMAIN s}

\* str.lower() on one character, then on a string
LowerChar(c) ==
    IF \E i \in 1..26 : UpperAlphabet[i] = c
    THEN LowerAlphabet[CHOOSE i \in 1..26 : UpperAlphabet[i] = c]
    ELSE c
Lower(s) == [i \in 1..Len(s) |-> LowerChar(s[i])]

\* Python's `sub in s` on strings
Contains(s, sub) ==
    \E i \in 0..(Len(s) - Len(sub)) :
        \A j \in 1..Len(sub) : s[i + j] = sub[j]

\* s.startswith(p)
StartsWith(s, p) ==
    /\ Len(p) <= Len(s)
    /\ \A j \in 1..Len(p) : s[j] = p[j]

RECURSIVE Concat(_)
Concat(ss) == IF ss = <<>> THEN <<>> ELSE Head(ss) \o Concat(Tail(ss))

(***************************************************************************)
(* EMAIL_REGEX  [a-zA-Z0-9._%+-]+@[a-zA-Z0-9.-]+\.[a-zA-Z]{2,}             *)
(***************************************************************************)
IsLocalChar(c) == c \in Letters \cup Digits \cup {".", "_", "%", "+", "-"}
IsDomainChar(c) == c \in Letters \cup Digits \cup {".", "-"}
IsAlphaChar(c) == c \in Letters

\* index one past the longest run of characters of a class starting at i
RECURSIVE RunEnd(_, _, _)
RunEnd(s, i, cls) ==
    IF i <= Len(s) /\ ( \/ cls = "local" /\ IsLocalChar(s[i])
                        \/ cls = "domain" /\ IsDomainChar(s[i])
                        \/ cls = "alpha" /\ IsAlphaChar(s[i]) )
    THEN RunEnd(s, i + 1, cls)
    ELSE i

\* The backtracking matcher anchored at i: the greedy local part must be
\* followed by "@"; the greedy domain part gives back characters until a
\* "." followed by at least two letters is found; the letters are greedy.
\* Returns the index one past the match, or 0 when there is no match at i.
MatchAt(s, i) ==
    LET at == RunEnd(s, i, "local")
    IN  IF at = i \/ at > Len(s) \/ s[at] # "@" THEN 0
        ELSE LET dend == RunEnd(s, at + 1, "domain")
                 dots == {k \in (at + 2)..(dend - 1) :
                             /\ s[k] = "."
                             /\ RunEnd(s, k + 1, "alpha") >= k + 3}
             IN  IF dots = {} THEN 0
                 ELSE LET k == CHOOSE d \in dots : \A e \in dots : e <= d
                      IN  RunEnd(s, k + 1, "alpha")

\* re.findall(EMAIL_REGEX, s): leftmost non-overlapping matches, scanning from i
RECURSIVE FindAllFrom(_, _)
FindAllFrom(s, i) ==
    IF i > Len(s) THEN <<>>
    ELSE LET e == MatchAt(s, i)
         IN  IF e = 0 THEN FindAllFrom(s, i + 1)
             ELSE <<SubSeq(s, i, e - 1)>> \o FindAllFrom(s, e)

FindAll(s) == FindAllFrom(s, 1)

\* re.search(EMAIL_REGEX, s) is not None, which is what Series.str.contains tests
Search(s) == \E i \in 1..Len(s) : MatchAt(s, i) # 0

\* re.fullmatch(EMAIL_REGEX, s) is not None: the pattern matches s as a whole
FullMatch(s) ==
    \E at \in 2..Len(s) : \E k \in (at + 2)..(Len(s) - 2) :
        /\ \A j \in 1..(at - 1) : IsLocalChar(s[j])
        /\ s[at] = "@"
        /\ \A j \in (at + 1)..(k - 1) : IsDomainChar(s[j])
        /\ s[k] = "."
        /\ \A j \in (k + 1)..Len(s) : IsAlphaChar(s[j])

(***************************************************************************)
(* The strings of the modelled world.                                      *)
(***************************************************************************)
SeedA == <<"h","t","t","p",":","/","/","a",".","n","l">>
SeedB == <<"h","t","t","p",":","/","/","b",".","n","l">>
AbsC == <<"h","t","t","p",":","/","/","c",".","n","l","/","c","o","n","t","a","c","t">>
RelC == <<"/","c","o","n","t","a","c","t">>
Home == <<"/","h","o","m","e">>
Mail1 == <<"a","@","b",".","n","l">>
AOpen == <<"<","a"," ","h","r","e","f","=","\"">>
AClose == <<"\"",">">>
A(href) == AOpen \o href \o AClose

PageNone == <<"h","e","l","l","o">>
PageRel == A(RelC)
PageAbs == A(Home) \o A(AbsC)
PageDup == A(AbsC) \o A(AbsC)
PageTwo == A(RelC) \o A(AbsC)
PageMail == <<"m","a","i","l"," ">> \o Mail1 \o <<".">>

\* what the network answers for a URL: a 2xx body, a non-2xx status, or a
\* transport error
Ok(text) == [kind |-> "ok", text |-> text]
HttpError == [kind |-> "http_error", text |-> <<>>]
TransportError == [kind |-> "transport_error", text |-> <<>>]

SeedResponses == {Ok(PageNone), Ok(PageRel), Ok(PageAbs), Ok(PageDup), HttpError, TransportError}
OtherSeedResponses == {Ok(PageRel), Ok(PageAbs), HttpError}
ContactResponses == {Ok(PageMail), HttpError}
Webs ==
    {[u \in {SeedA, SeedB, AbsC} |->
        IF u = SeedA THEN a ELSE IF u = SeedB THEN b ELSE c] :
        a \in SeedResponses, b \in OtherSeedResponses, c \in ContactResponses}

RECURSIVE SeqsUpTo(_, _)
SeqsUpTo(S, n) ==
    IF n = 0 THEN {<<>>}
    ELSE LET shorter == SeqsUpTo(S, n - 1)
         IN  shorter \cup {Append(q, x) : q \in shorter, x \in S}

\* The seed lists, up to the order of the seeds: as_completed starts the
\* tasks from a set, and no step reads the position of a seed in the list
SeedLists ==
    {q \in SeqsUpTo({SeedA, SeedB}, MaxSeeds) :
        \A m, n \in 1..Len(q) : (m < n /\ q[m] = SeedB) => q[n] = SeedB}

(***************************************************************************)
(* Messages of the exceptions that reach a handler which stringifies them. *)
(***************************************************************************)
MsgReuse == <<"c","a","n","n","o","t"," ","r","e","u","s","e"," ","a","l","r","e","a","d","y"," ","a","w","a","i","t","e","d"," ","c","o","r","o","u","t","i","n","e">>
MsgAwaited == <<"c","o","r","o","u","t","i","n","e"," ","i","s"," ","b","e","i","n","g"," ","a","w","a","i","t","e","d"," ","a","l","r","e","a","d","y">>
MsgNoLxml == <<"C","o","u","l","d","n","'","t"," ","f","i","n","d"," ","a"," ","t","r","e","e"," ","b","u","i","l","d","e","r"," ","w","i","t","h"," ","t","h","e"," ","f","e","a","t","u","r","e","s"," ","y","o","u"," ","r","e","q","u","e","s","t","e","d",":"," ","l","x","m","l","."," ","D","o"," ","y","o","u"," ","n","e","e","d"," ","t","o"," ","i","n","s","t","a","l","l"," ","a"," ","p","a","r","s","e","r"," ","l","i","b","r","a","r","y","?">>

\* str(e) for the exceptions named in the log
StrOf(err) ==
    IF err = "RuntimeError: reuse" THEN MsgReuse
    ELSE IF err = "RuntimeError: awaited" THEN MsgAwaited
    ELSE MsgNoLxml

contact_page_keywords == <<
    <<"c","o","n","t","a","c","t">>,
    <<"a","b","o","u","t">>,
    <<"o","v","e","r"," ","o","n","s">>,
    <<"a","n","b","i">>,
    <<"g","e","g","e","v","e","n","s">>,
    <<"i","n","f","o">>,
    <<"w","i","e">>,
    <<"g","e","v","e","n">>,
    <<"g","i","v","e">>,
    <<"g","i","f","t">>,
    <<"d","o","n","a","t","i","e">>,
    <<"d","o","n","e","r","e","n">>,
    <<"d","o","n","e","e","r">>,
    <<"m","a","i","l">> >>

(***************************************************************************)
(* Link discovery on a fetched page (lines 40-45).                         *)
(***************************************************************************)
\* index of the first '"' at or after i, or 0
RECURSIVE QuoteFrom(_, _)
QuoteFrom(s, i) ==
    IF i > Len(s) THEN 0
    ELSE IF s[i] = "\"" THEN i
    ELSE QuoteFrom(s, i + 1)

\* soup.find_all("a", href=True), as the href values in document order: every
\* <a href="..."> of the markup; an anchor whose attribute is not closed is
\* dropped by the recovering parser
RECURSIVE FindAllAnchors(_, _)
FindAllAnchors(s, i) ==
    IF i > Len(s) THEN <<>>
    ELSE IF StartsWith(SubSeq(s, i, Len(s)), AOpen)
         THEN LET q == QuoteFrom(s, i + Len(AOpen))
              IN  IF q = 0 THEN <<>>
                  ELSE <<SubSeq(s, i + Len(AOpen), q - 1)>> \o FindAllAnchors(s, q + 1)
         ELSE FindAllAnchors(s, i + 1)

\* any(keyword in link["href"].lower() for keyword in contact_page_keywords)
IsContactHref(href, keywords) ==
    \E n \in 1..Len(keywords) : Contains(Lower(href), keywords[n])

RECURSIVE Filter(_, _)
Filter(hrefs, keywords) ==
    IF hrefs = <<>> THEN <<>>
    ELSE (IF IsContactHref(Head(hrefs), keywords) THEN <<Head(hrefs)>> ELSE <<>>)
         \o Filter(Tail(hrefs), keywords)

contact_urls(html, keywords) == Filter(FindAllAnchors(html, 1), keywords)

\* The texts a fetch can return in this world, and over them the two
\* functions of a page, each computed once
\* the site of the end-to-end scenario
Example == <<"h","t","t","p","s",":","/","/","e","x","a","m","p","l","e",".","o","r","g">>
ContactUs == <<"/","c","o","n","t","a","c","t","-","u","s">>
ExampleHome == A(ContactUs) \o <<"C","o","n","t","a","c","t","<","/","a",">">>
InfoMail == <<"i","n","f","o","@","e","x","a","m","p","l","e",".","o","r","g">>
ReachUs == <<"R","e","a","c","h"," ","u","s"," ","a","t"," ">> \o InfoMail \o <<".">>

Texts ==
    {<<>>, ExampleHome, ReachUs, PageTwo} \cup {r.text : r \in SeedResponses \cup ContactResponses}
ContactUrlsOf == [html \in Texts |-> contact_urls(html, contact_page_keywords)]
EmailsOf == [html \in Texts |-> FindAll(html)]

(***************************************************************************)
(* is_url (lines 82-87) and the seed list of line 130.  The "website"      *)
(* field of a record is a cell: `null` says that it holds None, `str` is   *)
(* its string otherwise.                                                   *)
(***************************************************************************)
Str(s) == [null |-> FALSE, str |-> s]
None == [null |-> TRUE, str |-> <<>>]

IsSpace(c) == c \in {" ", "\t", "\n", "\r"}

\* url_regex.match(url) for  https?://[^\s/$.?#].[^\s]*  : the pattern is
\* anchored at the start only, its last part matches the empty string
UrlRegexMatch(s) ==
    \E p \in {<<"h","t","t","p",":","/","/">>, <<"h","t","t","p","s",":","/","/">>} :
        /\ StartsWith(s, p)
        /\ Len(s) >= Len(p) + 2
        /\ ~IsSpace(s[Len(p) + 1])
        /\ s[Len(p) + 1] \notin {"/", "$", ".", "?", "#"}
        /\ s[Len(p) + 2] # "\n"

\* lines 83-87: `if url` is false for None and for the empty string
is_url(url) == ~url.null /\ url.str # <<>> /\ UrlRegexMatch(url.str)

\* line 130: [kerk["website"] for kerk in pkn_kerken if is_url(kerk["website"])]
RECURSIVE SeedsOf(_)
SeedsOf(kerken) ==
    IF kerken = <<>> THEN <<>>
    ELSE (IF is_url(Head(kerken).website) THEN <<Head(kerken).website.str>> ELSE <<>>)
         \o SeedsOf(Tail(kerken))

\* the directory whose records carry the given websites
Directory(websites) == [n \in 1..Len(websites) |-> [website |-> Str(websites[n])]]

(***************************************************************************)
(* State.                                                                  *)
(***************************************************************************)
VARIABLES
    call,         \* a call of get_contact_page_urls on a page that is at
                  \* hand: its arguments, and its result once it has returned
    pkn_kerken,   \* the directory records, each with its "website" field
    kerk_urls,    \* the seed list handed to main
    web,          \* what the network answers for each URL during this run
    lxml,         \* whether the "lxml" tree builder is installed
    session,      \* "none", "open" or "closed": the aiohttp.ClientSession
    cache,        \* the TTLCache: URL -> the cached coroutine object
    coros,        \* the coroutine objects created by calls of fetch, with
                  \* the text a finished one has returned; the object made
                  \* by task i for its k-th contact page is <<i, k>>, the
                  \* one for its seed page is <<i, 0>>
    gets,         \* how many outbound GET requests were issued, per URL
    log,          \* the lines written to url_log.txt, as a set
    tasks,        \* one process_kerk_url task per seed
    running,      \* the task the event loop is running, 0 between steps
    done_queue,   \* as_completed's queue of finished tasks
    kerk_emails,  \* the ResultMap: a dict as its (key, value) pairs in
                  \* insertion order
    progress,     \* the count shown by the tqdm bar
    mainpc,       \* "load" before line 130, then "init", "waiting",
                  \* "returned", "aborted" or "failed"
    expired,      \* how many cache entries have left the cache
    cell,         \* the export statement reached after main has returned
    rows,         \* the list built at lines 139-143
    df,           \* the DataFrame of lines 146-148
    prev          \* the ResultMap of an earlier execution of line 135, if any

vars == <<call, pkn_kerken, kerk_urls, web, lxml, session, cache, coros, gets, log, tasks,
          running, done_queue, kerk_emails, progress, mainpc, expired,
          cell, rows, df, prev>>

crawl_vars == <<call, pkn_kerken, kerk_urls, web, lxml, session, cache, coros, gets, log, tasks,
                running, done_queue, kerk_emails, progress, mainpc, expired>>

NoCall == [state |-> "none", hrefs |-> <<>>, html |-> <<>>, keywords |-> <<>>, result |-> <<>>]

Init ==
    /\ call = NoCall
    /\ pkn_kerken \in {Directory(q) : q \in SeedLists}
    /\ kerk_urls = SeedsOf(pkn_kerken)
    /\ web \in Webs
    /\ lxml \in BOOLEAN
    /\ session = "none"
    /\ cache = [u \in {} |-> <<0, 0>>]
    /\ coros = [c \in {} |-> [url |-> <<>>, state |-> "finished", text |-> <<>>]]
    /\ gets = [u \in {} |-> 0]
    /\ log = {}
    /\ tasks = <<>>
    /\ running = 0
    /\ done_queue = <<>>
    /\ kerk_emails = <<>>
    /\ progress = 0
    /\ mainpc = "init"
    /\ expired = 0
    /\ cell = "run"
    /\ rows = <<>>
    /\ df = <<>>
    /\ prev = [set |-> FALSE, val |-> <<>>]

(***************************************************************************)
(* fetch (lines 24-32), decorated by cachetools.cached: the wrapper is a   *)
(* plain function, so what it stores under the key and hands back on a hit *)
(* is the coroutine object that the first call created.                    *)
(***************************************************************************)
\* aiohttp only requests absolute http and https URLs
IsRequestable(url) ==
    \/ StartsWith(url, <<"h","t","t","p",":","/","/">>)
    \/ StartsWith(url, <<"h","t","t","p","s",":","/","/">>)

ResponseFor(url) ==
    IF session # "open" THEN TransportError
    ELSE IF url \in DOMAIN web THEN web[url]
    ELSE TransportError

\* What `await fetch(session, url)` does up to its first suspension.
\*   "awaited"  hit on a coroutine suspended in its GET: the await raises
\*   "reuse"    hit on a coroutine that has finished: the await raises
\*   "closed"   miss, session.get raises at once, fetch returns ""
\*   "invalid"  miss, the URL is rejected at once, fetch returns ""
\*   "issued"   miss, the GET is sent and the caller is suspended
FetchOutcome(url) ==
    IF url \in DOMAIN cache
    THEN IF coros[cache[url]].state = "suspended" THEN "awaited" ELSE "reuse"
    ELSE IF session # "open" THEN "closed"
    ELSE IF ~IsRequestable(url) THEN "invalid"
    ELSE "issued"

Raises(outcome) == outcome \in {"awaited", "reuse"}

ErrorOf(outcome) ==
    IF outcome = "awaited" THEN "RuntimeError: awaited"
    ELSE IF outcome = "reuse" THEN "RuntimeError: reuse"
    ELSE IF outcome = "closed" THEN "RuntimeError: Session is closed"
    ELSE "InvalidURL"

LogLine(level, at, url, err) == [level |-> level, at |-> at, url |-> url, err |-> err]

\* a cache in which the call stores nothing
CacheAfterNoStore(url, c) == cache

\* the cache, the coroutine objects, the requests and the log after the call
\* c is the coroutine object a miss creates
CacheAfter(url, c) ==
    IF url \in DOMAIN cache THEN cache
    ELSE [u \in DOMAIN cache \cup {url} |-> IF u = url THEN c ELSE cache[u]]

CorosAfter(url, c) ==
    IF url \in DOMAIN cache THEN coros
    ELSE [d \in DOMAIN coros \cup {c} |->
            IF d = c
            THEN [url |-> url,
                  state |-> IF FetchOutcome(url) = "issued"
                            THEN "suspended" ELSE "finished",
                  text |-> <<>>]
            ELSE coros[d]]

GetsOf(url) == IF url \in DOMAIN gets THEN gets[url] ELSE 0

GetsAfter(url) ==
    IF FetchOutcome(url) = "issued"
    THEN [u \in DOMAIN gets \cup {url} |->
            IF u = url THEN GetsOf(url) + 1 ELSE gets[u]]
    ELSE gets

FetchLog(url) ==
    IF FetchOutcome(url) \in {"closed", "invalid"}
    THEN {LogLine("ERROR", "fetch", url, ErrorOf(FetchOutcome(url)))}
    ELSE {}

\* the text a resumed fetch returns for a response, and what it logs
TextOf(resp) == IF resp.kind = "ok" THEN resp.text ELSE <<>>

ResponseLog(url, resp) ==
    IF resp.kind = "ok" THEN {}
    ELSE {LogLine("ERROR", "fetch", url,
                  IF resp.kind = "http_error" THEN "ClientResponseError"
                  ELSE "ClientConnectionError")}

(***************************************************************************)
(* get_contact_page_urls after its fetch (lines 40-50) and                 *)
(* extract_emails_from_page after its fetch (lines 58-62).                 *)
(***************************************************************************)
\* a handler that returns no candidate
DiscoverFailedEmpty(main_url, err) ==
    [raised |-> FALSE,
     pages |-> <<>>,
     log |-> {LogLine("ERROR", "get_contact_page_urls", main_url, err)}]

\* lines 48-50: the handler of get_contact_page_urls turns the exception
\* into a one-element result; `raised` says whether the exception leaves the
\* function instead
DiscoverFailed(main_url, err) ==
    [raised |-> FALSE,
     pages |-> <<StrOf(err)>>,
     log |-> {LogLine("ERROR", "get_contact_page_urls", main_url, err)}]

\* lines 40-47; BeautifulSoup raises FeatureNotFound when the "lxml" builder
\* is not installed
Discover(main_url, html_content) ==
    IF lxml
    THEN [raised |-> FALSE,
          pages |-> ContactUrlsOf[html_content],
          log |-> {LogLine("INFO", "get_contact_page_urls", main_url, "found")}]
    ELSE DiscoverFailed(main_url, "FeatureNotFound")

\* extract_emails_from_page without its handler: the exception leaves it
ExtractFailedUncaught(url, err) ==
    [raised |-> TRUE, emails |-> <<>>, log |-> {}]

\* lines 59-61: the handler of extract_emails_from_page
ExtractFailed(url, err) ==
    [raised |-> FALSE,
     emails |-> <<StrOf(err)>>,
     log |-> {LogLine("ERROR", "extract_emails_from_page", url, err)}]

\* lines 57-58 and 62
Extracted(html_content) ==
    [raised |-> FALSE, emails |-> EmailsOf[html_content], log |-> {}]

(***************************************************************************)
(* The batch runner and the per-seed tasks.  A task runs without           *)
(* interruption from one suspension to the next: `running` names the task  *)
(* that has the event loop; it is 0 whenever every task is suspended.      *)
(***************************************************************************)
N == Len(kerk_urls)

NewTask(kerk_url) ==
    [pc |-> "pending", kerk_url |-> kerk_url, contact_pages |-> <<>>,
     emails |-> <<>>, coro |-> <<0, 0>>]

\* a list of pairs in place of the dict: every result is appended
DictSetAppend(d, key, value) == Append(d, [key |-> key, value |-> value])

\* dict.__setitem__: a new key is appended, an existing key keeps its place
DictSet(d, key, value) ==
    IF \E n \in 1..Len(d) : d[n].key = key
    THEN [n \in 1..Len(d) |-> IF d[n].key = key THEN [key |-> key, value |-> value] ELSE d[n]]
    ELSE Append(d, [key |-> key, value |-> value])

Keys(d) == {d[n].key : n \in 1..Len(d)}

\* lines 93-100: kerk_emails = {}, the session is entered, one coroutine per
\* seed is created, as_completed schedules them all and main waits for the
\* first result; with no seed the loop body never runs and main returns
MainStart ==
    /\ mainpc = "init"
    /\ running = 0
    /\ kerk_emails' = <<>>
    /\ tasks' = [i \in 1..N |-> NewTask(kerk_urls[i])]
    /\ IF N = 0
       THEN /\ session' = "closed"
            /\ mainpc' = "returned"
       ELSE /\ session' = "open"
            /\ mainpc' = "waiting"
    /\ UNCHANGED <<call, pkn_kerken, kerk_urls, web, lxml, cache, coros, gets, log, running,
                   done_queue, progress, expired, cell, rows, df, prev>>

\* process_kerk_url has no handler of its own: an exception that leaves
\* get_contact_page_urls or extract_emails_from_page ends the task, and
\* as_completed queues the failed task like a finished one
AfterDiscover(i, found) ==
    IF found.raised
    THEN /\ tasks' = [tasks EXCEPT ![i].pc = "raised", ![i].coro = <<0, 0>>]
         /\ done_queue' = Append(done_queue, i)
         /\ running' = 0
    ELSE /\ tasks' = [tasks EXCEPT ![i].pc = "pages", ![i].coro = <<0, 0>>,
                                   ![i].contact_pages = found.pages]
         /\ done_queue' = done_queue
         /\ running' = i

\* the per-page list put in front of the lists collected so far
AfterExtractPrepend(i, got) ==
    IF got.raised
    THEN /\ tasks' = [tasks EXCEPT ![i].pc = "raised", ![i].coro = <<0, 0>>]
         /\ done_queue' = Append(done_queue, i)
         /\ running' = 0
    ELSE /\ tasks' = [tasks EXCEPT ![i].pc = "pages", ![i].coro = <<0, 0>>,
                                   ![i].emails = <<got.emails>> \o @]
         /\ done_queue' = done_queue
         /\ running' = i

AfterExtract(i, got) ==
    IF got.raised
    THEN /\ tasks' = [tasks EXCEPT ![i].pc = "raised", ![i].coro = <<0, 0>>]
         /\ done_queue' = Append(done_queue, i)
         /\ running' = 0
    ELSE /\ tasks' = [tasks EXCEPT ![i].pc = "pages", ![i].coro = <<0, 0>>,
                                   ![i].emails = Append(@, got.emails)]
         /\ done_queue' = done_queue
         /\ running' = i

\* lines 71-73 and 38-50: a scheduled task starts, calls
\* get_contact_page_urls, which awaits fetch(session, main_url)
TaskStart(i) ==
    /\ running = 0
    /\ tasks[i].pc = "pending"
    /\ LET url == tasks[i].kerk_url
           out == FetchOutcome(url)
           found == IF Raises(out) THEN DiscoverFailed(url, ErrorOf(out))
                    ELSE Discover(url, <<>>)
       IN  /\ cache' = CacheAfter(url, <<i, 0>>)
           /\ coros' = CorosAfter(url, <<i, 0>>)
           /\ gets' = GetsAfter(url)
           /\ IF out = "issued"
              THEN /\ tasks' = [tasks EXCEPT ![i].pc = "wait_main",
                                             ![i].coro = <<i, 0>>]
                   /\ log' = log
                   /\ UNCHANGED <<done_queue, running>>
              ELSE /\ AfterDiscover(i, found)
                   /\ log' = log \cup FetchLog(url) \cup found.log
    /\ UNCHANGED <<call, pkn_kerken, kerk_urls, web, lxml, session, kerk_emails,
                   progress, mainpc, expired, cell, rows, df, prev>>

\* lines 27-32 resumed: the request of the fetch that task i awaits ends with
\* a response or an error, the coroutine finishes and the task goes on, at
\* lines 40-50 in get_contact_page_urls or at lines 58-62 in
\* extract_emails_from_page
Respond(i) ==
    /\ running = 0
    /\ tasks[i].pc \in {"wait_main", "wait_page"}
    /\ LET c == tasks[i].coro
           url == coros[c].url
           resp == ResponseFor(url)
           text == TextOf(resp)
       IN  /\ coros' = [coros EXCEPT ![c].state = "finished", ![c].text = text]
           /\ IF tasks[i].pc = "wait_main"
              THEN /\ AfterDiscover(i, Discover(url, text))
                   /\ log' = log \cup ResponseLog(url, resp) \cup Discover(url, text).log
              ELSE /\ AfterExtract(i, Extracted(text))
                   /\ log' = log \cup ResponseLog(url, resp)
    /\ UNCHANGED <<call, pkn_kerken, kerk_urls, web, lxml, session, cache, gets,
                   kerk_emails, progress, mainpc, expired, cell, rows, df, prev>>

\* the contact pages requested without waiting for one another: the task
\* goes on to its next page while the request is in flight
ExtractAhead(i) ==
    /\ running = i
    /\ tasks[i].pc = "pages"
    /\ Len(tasks[i].emails) < Len(tasks[i].contact_pages)
    /\ LET k == Len(tasks[i].emails) + 1
           url == tasks[i].contact_pages[k]
           out == FetchOutcome(url)
           got == IF Raises(out) THEN ExtractFailed(url, ErrorOf(out))
                  ELSE Extracted(<<>>)
       IN  /\ cache' = CacheAfter(url, <<i, k>>)
           /\ coros' = CorosAfter(url, <<i, k>>)
           /\ gets' = GetsAfter(url)
           /\ AfterExtract(i, got)
           /\ log' = log \cup FetchLog(url) \cup got.log
    /\ UNCHANGED <<call, pkn_kerken, kerk_urls, web, lxml, session, kerk_emails,
                   progress, mainpc, expired, cell, rows, df, prev>>

\* lines 74-77 and 56-62: the next contact page is handed to
\* extract_emails_from_page, which awaits fetch(session, page)
Extract(i) ==
    /\ running = i
    /\ tasks[i].pc = "pages"
    /\ Len(tasks[i].emails) < Len(tasks[i].contact_pages)
    /\ LET k == Len(tasks[i].emails) + 1
           url == tasks[i].contact_pages[k]
           out == FetchOutcome(url)
           got == IF Raises(out) THEN ExtractFailed(url, ErrorOf(out))
                  ELSE Extracted(<<>>)
       IN  /\ cache' = CacheAfter(url, <<i, k>>)
           /\ coros' = CorosAfter(url, <<i, k>>)
           /\ gets' = GetsAfter(url)
           /\ IF out = "issued"
              THEN /\ tasks' = [tasks EXCEPT ![i].pc = "wait_page",
                                             ![i].coro = <<i, k>>]
                   /\ log' = log
                   /\ running' = 0
                   /\ done_queue' = done_queue
              ELSE /\ AfterExtract(i, got)
                   /\ log' = log \cup FetchLog(url) \cup got.log
    /\ UNCHANGED <<call, pkn_kerken, kerk_urls, web, lxml, session, kerk_emails,
                   progress, mainpc, expired, cell, rows, df, prev>>

\* a task whose completion is never handed to main
ReturnUnqueued(i) ==
    /\ running = i
    /\ tasks[i].pc = "pages"
    /\ Len(tasks[i].emails) = Len(tasks[i].contact_pages)
    /\ tasks' = [tasks EXCEPT ![i].pc = "done"]
    /\ running' = 0
    /\ UNCHANGED <<call, pkn_kerken, kerk_urls, web, lxml, session, cache, coros, gets, log,
                   done_queue, kerk_emails, progress, mainpc, expired, cell,
                   rows, df, prev>>

\* line 79: the task returns (kerk_url, emails); as_completed queues it
Return(i) ==
    /\ running = i
    /\ tasks[i].pc = "pages"
    /\ Len(tasks[i].emails) = Len(tasks[i].contact_pages)
    /\ tasks' = [tasks EXCEPT ![i].pc = "done"]
    /\ done_queue' = Append(done_queue, i)
    /\ running' = 0
    /\ UNCHANGED <<call, pkn_kerken, kerk_urls, web, lxml, session, cache, coros, gets, log,
                   kerk_emails, progress, mainpc, expired, cell, rows, df, prev>>

\* the tasks awaited one by one in the order of the seed list, in place of
\* as_completed
FoldInOrder ==
    /\ running = 0
    /\ mainpc = "waiting"
    /\ \E n \in 1..Len(done_queue) : done_queue[n] = progress + 1
    /\ done_queue' =
          LET n == CHOOSE m \in 1..Len(done_queue) : done_queue[m] = progress + 1
          IN  SubSeq(done_queue, 1, n - 1) \o SubSeq(done_queue, n + 1, Len(done_queue))
    /\ LET t == tasks[progress + 1]
       IN  IF t.pc = "raised"
           THEN /\ session' = "closed"
                /\ mainpc' = "failed"
                /\ UNCHANGED <<kerk_emails, progress>>
           ELSE /\ kerk_emails' = DictSet(kerk_emails, t.kerk_url, t.emails)
                /\ progress' = progress + 1
                /\ IF progress + 1 = N
                   THEN /\ session' = "closed"
                        /\ mainpc' = "returned"
                   ELSE /\ session' = session
                        /\ mainpc' = mainpc
    /\ UNCHANGED <<call, pkn_kerken, kerk_urls, web, lxml, cache, coros, gets,
                   log, tasks, running, expired, cell, rows, df, prev>>

\* lines 100-102, and 94 and 106 after the last result: main takes the next
\* finished task, stores its result under its seed and the bar advances;
\* after the last one the session is closed and kerk_emails is returned.
\* `await f` re-raises the exception of a failed task: it leaves main through
\* the `async with` block, which closes the session
Fold ==
    /\ running = 0
    /\ mainpc = "waiting"
    /\ done_queue # <<>>
    /\ done_queue' = Tail(done_queue)
    /\ LET t == tasks[Head(done_queue)]
       IN  IF t.pc = "raised"
           THEN /\ session' = "closed"
                /\ mainpc' = "failed"
                /\ UNCHANGED <<kerk_emails, progress>>
           ELSE /\ kerk_emails' = DictSet(kerk_emails, t.kerk_url, t.emails)
                /\ progress' = progress + 1
                /\ IF progress + 1 = N
                   THEN /\ session' = "closed"
                        /\ mainpc' = "returned"
                   ELSE /\ session' = session
                        /\ mainpc' = mainpc
    /\ UNCHANGED <<call, pkn_kerken, kerk_urls, web, lxml, cache, coros, gets, log, tasks,
                   running, expired, cell, rows, df, prev>>

\* line 135 and 94: the run is interrupted while main waits at line 101; the
\* exception leaves the loop and the `async with` block closes the session
Abort ==
    /\ running = 0
    /\ mainpc = "waiting"
    /\ session' = "closed"
    /\ mainpc' = "aborted"
    /\ UNCHANGED <<call, pkn_kerken, kerk_urls, web, lxml, cache, coros, gets, log, tasks,
                   running, done_queue, kerk_emails, progress, expired,
                   cell, rows, df, prev>>

\* line 135: asyncio.run cancels the tasks that main left behind
CancelAll ==
    /\ running = 0
    /\ mainpc \in {"aborted", "failed"}
    /\ \E i \in 1..N : tasks[i].pc \notin {"done", "raised", "cancelled"}
    /\ tasks' = [i \in 1..N |->
                    IF tasks[i].pc \in {"done", "raised"} THEN tasks[i]
                    ELSE [tasks[i] EXCEPT !.pc = "cancelled", !.coro = <<0, 0>>]]
    /\ UNCHANGED <<call, pkn_kerken, kerk_urls, web, lxml, session, cache, coros, gets, log,
                   running, done_queue, kerk_emails, progress, mainpc,
                   expired, cell, rows, df, prev>>

\* line 18: an entry leaves the cache when its time to live has passed; only
\* a later call of fetch can notice, so the entries expire while some task
\* can still call it
Expire(url) ==
    /\ running = 0
    /\ expired < MaxExpire
    /\ \E i \in 1..Len(tasks) : tasks[i].pc \notin {"done", "raised", "cancelled"}
    /\ url \in DOMAIN cache
    /\ cache' = [u \in DOMAIN cache \ {url} |-> cache[u]]
    /\ expired' = expired + 1
    /\ UNCHANGED <<call, pkn_kerken, kerk_urls, web, lxml, session, coros, gets, log, tasks,
                   running, done_queue, kerk_emails, progress, mainpc,
                   cell, rows, df, prev>>

(***************************************************************************)
(* The export (lines 139-149).  A cell of the "email" column is a record:  *)
(* `null` says that it holds None/NaN, `email` is its value otherwise (a   *)
(* list of strings in rows, one string in df).                             *)
(***************************************************************************)
\* lines 139-143: one tuple per (key, value in values); the conditional is
\* evaluated for each value of the inner loop
RowsOfEntry(key, values) ==
    [j \in 1..Len(values) |->
        IF values # <<>>
        THEN [url |-> key, null |-> FALSE, email |-> values[j]]
        ELSE [url |-> key, null |-> TRUE, email |-> <<>>]]

RowsOf(d) == Concat([n \in 1..Len(d) |-> RowsOfEntry(d[n].key, d[n].value)])

\* DataFrame.explode("email"): one row per element of a list cell, one NaN
\* row for an empty list, a cell that is no list is kept
ExplodeRow(r) ==
    IF r.null \/ r.email = <<>>
    THEN <<[url |-> r.url, null |-> TRUE, email |-> <<>>]>>
    ELSE [j \in 1..Len(r.email) |-> [url |-> r.url, null |-> FALSE, email |-> r.email[j]]]

Explode(rs) == Concat([n \in 1..Len(rs) |-> ExplodeRow(rs[n])])

\* line 147: df["email"].str.contains(EMAIL_REGEX, na=False)
KeepRow(r) == ~r.null /\ Search(r.email)

RECURSIVE SelectRows(_)
SelectRows(d) ==
    IF d = <<>> THEN <<>>
    ELSE (IF KeepRow(Head(d)) THEN <<Head(d)>> ELSE <<>>) \o SelectRows(Tail(d))

\* two cells of the column are duplicates of each other
SameEmail(r, q) == r.null = q.null /\ r.email = q.email

\* drop_duplicates with keep="last"
RECURSIVE DropDupLast(_, _)
DropDupLast(d, n) ==
    IF n > Len(d) THEN <<>>
    ELSE (IF \E m \in (n + 1)..Len(d) : SameEmail(d[m], d[n]) THEN <<>> ELSE <<d[n]>>)
         \o DropDupLast(d, n + 1)

\* line 148: drop_duplicates(subset=["email"]) keeps the first row of each value
RECURSIVE DropDup(_, _)
DropDup(d, n) ==
    IF n > Len(d) THEN <<>>
    ELSE (IF \E m \in 1..(n - 1) : SameEmail(d[m], d[n]) THEN <<>> ELSE <<d[n]>>)
         \o DropDup(d, n + 1)

drop_duplicates(d) == DropDup(d, 1)

BuildRows ==
    /\ mainpc = "returned"
    /\ cell = "run"
    /\ rows' = RowsOf(kerk_emails)
    /\ cell' = "rows"
    /\ UNCHANGED <<crawl_vars, df, prev>>

MakeFrame ==
    /\ cell = "rows"
    /\ df' = Explode(rows)
    /\ cell' = "frame"
    /\ UNCHANGED <<crawl_vars, rows, prev>>

FilterEmails ==
    /\ cell = "frame"
    /\ df' = SelectRows(df)
    /\ cell' = "filtered"
    /\ UNCHANGED <<crawl_vars, rows, prev>>

\* lines 148-149: the deduplicated frame is what to_excel writes
DropDuplicates ==
    /\ cell = "filtered"
    /\ df' = drop_duplicates(df)
    /\ cell' = "written"
    /\ UNCHANGED <<crawl_vars, rows, prev>>

Export ==
    \/ BuildRows
    \/ MakeFrame
    \/ FilterEmails
    \/ DropDuplicates

Next ==
    \/ MainStart
    \/ \E i \in 1..Len(tasks) : TaskStart(i)
    \/ \E i \in 1..Len(tasks) : Respond(i)
    \/ \E i \in 1..Len(tasks) : Extract(i)
    \/ \E i \in 1..Len(tasks) : Return(i)
    \/ Fold
    \/ \E url \in DOMAIN cache : Expire(url)
    \/ BuildRows
    \/ MakeFrame
    \/ FilterEmails
    \/ DropDuplicates

Spec == Init /\ [][Next]_vars

(***************************************************************************)
(* The run with an interruption: main can be cancelled while it waits.     *)
(***************************************************************************)
AbortNext ==
    \/ Next
    \/ Abort
    \/ CancelAll

AbortSpec == Init /\ [][AbortNext]_vars

(***************************************************************************)
(* The run under fair scheduling: the event loop runs every task that can  *)
(* go on, every request ends with a response or an error, and nothing      *)
(* interrupts main.                                                        *)
(***************************************************************************)
FairNext ==
    \/ MainStart
    \/ \E i \in 1..Len(tasks) : TaskStart(i)
    \/ \E i \in 1..Len(tasks) : Respond(i)
    \/ \E i \in 1..Len(tasks) : Extract(i)
    \/ \E i \in 1..Len(tasks) : Return(i)
    \/ Fold
    \/ Export

FairSpec == Init /\ [][FairNext]_vars /\ WF_vars(FairNext)

(***************************************************************************)
(* Line 135 executed a second time on the same seeds and the same web.     *)
(* The new run has a new session; the cache key holds the session, so no   *)
(* entry of the earlier run can be hit.                                    *)
(***************************************************************************)
Rerun ==
    /\ mainpc = "returned"
    /\ cell = "run"
    /\ ~prev.set
    /\ prev' = [set |-> TRUE, val |-> kerk_emails]
    /\ session' = "none"
    /\ cache' = [u \in {} |-> <<0, 0>>]
    /\ coros' = [c \in {} |-> [url |-> <<>>, state |-> "finished", text |-> <<>>]]
    /\ gets' = [u \in {} |-> 0]
    /\ tasks' = <<>>
    /\ done_queue' = <<>>
    /\ kerk_emails' = <<>>
    /\ progress' = 0
    /\ mainpc' = "init"
    /\ UNCHANGED <<call, pkn_kerken, kerk_urls, web, lxml, log, running, expired, cell, rows, df>>

RerunNext ==
    \/ MainStart
    \/ \E i \in 1..Len(tasks) : TaskStart(i)
    \/ \E i \in 1..Len(tasks) : Respond(i)
    \/ \E i \in 1..Len(tasks) : Extract(i)
    \/ \E i \in 1..Len(tasks) : Return(i)
    \/ Fold
    \/ Rerun

RerunSpec == Init /\ [][RerunNext]_vars

(***************************************************************************)
(* The export on its own: kerk_emails is any ResultMap within the bounds,  *)
(* main has returned it and the tasks of the run are gone.                 *)
(***************************************************************************)
Around == PageMail
ExportStrings == {Mail1, Around, MsgReuse}
EmailLists == SeqsUpTo(ExportStrings, MaxList)
PageLists == SeqsUpTo(EmailLists, MaxPages)

\* the second seed holds plain addresses only
OtherEmailLists == SeqsUpTo({Mail1}, MaxList)
OtherPageLists == SeqsUpTo(OtherEmailLists, MaxPages)

\* the key orders of a dict over the seeds: pairwise different keys, in
\* either insertion order
KeyOrders ==
    {ks \in {<<>>, <<SeedA>>, <<SeedB>>, <<SeedA, SeedB>>, <<SeedB, SeedA>>} :
        Len(ks) <= MaxSeeds}

ExportInit ==
    /\ call = NoCall
    /\ \E ks \in KeyOrders : \E va \in PageLists, vb \in OtherPageLists :
          kerk_emails =
              [n \in 1..Len(ks) |->
                  [key |-> ks[n], value |-> IF ks[n] = SeedA THEN va ELSE vb]]
    /\ kerk_urls = [n \in 1..Len(kerk_emails) |-> kerk_emails[n].key]
    /\ pkn_kerken = Directory(kerk_urls)
    /\ web \in {[u \in {SeedA, SeedB, AbsC} |-> TransportError]}
    /\ lxml = TRUE
    /\ session = "closed"
    /\ cache = [u \in {} |-> <<0, 0>>]
    /\ coros = [c \in {} |-> [url |-> <<>>, state |-> "finished", text |-> <<>>]]
    /\ gets = [u \in {} |-> 0]
    /\ log = {}
    /\ tasks = <<>>
    /\ running = 0
    /\ done_queue = <<>>
    /\ progress = Len(kerk_emails)
    /\ mainpc = "returned"
    /\ expired = 0
    /\ cell = "run"
    /\ rows = <<>>
    /\ df = <<>>
    /\ prev = [set |-> FALSE, val |-> <<>>]

ExportSpec == ExportInit /\ [][Export]_vars

(***************************************************************************)
(* The script from line 130: the directory holds any websites, the seed    *)
(* list is filtered from it and the batch runs on what is left.            *)
(***************************************************************************)
NotAUrl == <<"n","o","t"," ","a"," ","u","r","l">>
Spaced == SeedA \o <<" ","x">>
Websites == {Str(SeedA), Str(NotAUrl), Str(<<>>), None, Str(Spaced)}
Directories == SeqsUpTo([website : Websites], MaxSeeds)

DirectoryWebs ==
    {[u \in {SeedA, SeedB, AbsC} |->
        IF u = SeedA THEN a ELSE IF u = SeedB THEN HttpError ELSE Ok(PageMail)] :
        a \in {Ok(PageAbs), HttpError}}

DirectoryInit ==
    /\ call = NoCall
    /\ pkn_kerken \in Directories
    /\ kerk_urls = <<>>
    /\ web \in DirectoryWebs
    /\ lxml = TRUE
    /\ session = "none"
    /\ cache = [u \in {} |-> <<0, 0>>]
    /\ coros = [c \in {} |-> [url |-> <<>>, state |-> "finished", text |-> <<>>]]
    /\ gets = [u \in {} |-> 0]
    /\ log = {}
    /\ tasks = <<>>
    /\ running = 0
    /\ done_queue = <<>>
    /\ kerk_emails = <<>>
    /\ progress = 0
    /\ mainpc = "load"
    /\ expired = 0
    /\ cell = "run"
    /\ rows = <<>>
    /\ df = <<>>
    /\ prev = [set |-> FALSE, val |-> <<>>]

\* line 130
FilterSeeds ==
    /\ mainpc = "load"
    /\ kerk_urls' = SeedsOf(pkn_kerken)
    /\ mainpc' = "init"
    /\ UNCHANGED <<call, pkn_kerken, web, lxml, session, cache, coros, gets, log,
                   tasks, running, done_queue, kerk_emails, progress, expired,
                   cell, rows, df, prev>>

DirectoryNext ==
    \/ FilterSeeds
    \/ MainStart
    \/ \E i \in 1..Len(tasks) : TaskStart(i)
    \/ \E i \in 1..Len(tasks) : Respond(i)
    \/ \E i \in 1..Len(tasks) : Extract(i)
    \/ \E i \in 1..Len(tasks) : Return(i)
    \/ Fold

DirectorySpec == DirectoryInit /\ [][DirectoryNext]_vars

(***************************************************************************)
(* The end-to-end scenario: the one seed is the example site, whose        *)
(* homepage and contact page are on the web next to the other sites.       *)
(***************************************************************************)
ScenarioWebs ==
    {[u \in DOMAIN w \cup {Example, Example \o ContactUs} |->
        IF u = Example THEN Ok(ExampleHome)
        ELSE IF u = Example \o ContactUs THEN Ok(ReachUs)
        ELSE w[u]] : w \in Webs}

ScenarioInit ==
    /\ call = NoCall
    /\ pkn_kerken = Directory(<<Example>>)
    /\ kerk_urls = SeedsOf(pkn_kerken)
    /\ web \in ScenarioWebs
    /\ lxml = TRUE
    /\ session = "none"
    /\ cache = [u \in {} |-> <<0, 0>>]
    /\ coros = [c \in {} |-> [url |-> <<>>, state |-> "finished", text |-> <<>>]]
    /\ gets = [u \in {} |-> 0]
    /\ log = {}
    /\ tasks = <<>>
    /\ running = 0
    /\ done_queue = <<>>
    /\ kerk_emails = <<>>
    /\ progress = 0
    /\ mainpc = "init"
    /\ expired = 0
    /\ cell = "run"
    /\ rows = <<>>
    /\ df = <<>>
    /\ prev = [set |-> FALSE, val |-> <<>>]

ScenarioSpec == ScenarioInit /\ [][Next]_vars

(***************************************************************************)
(* The batch on a web whose first seed page has two contact candidates,    *)
(* two different ones or the same one twice.                               *)
(***************************************************************************)
AlignWebs ==
    {[u \in {SeedA, SeedB, AbsC} |->
        IF u = SeedA THEN a ELSE IF u = SeedB THEN b ELSE c] :
        a \in {Ok(PageTwo), Ok(PageDup)}, b \in OtherSeedResponses,
        c \in ContactResponses}

AlignInit ==
    /\ call = NoCall
    /\ pkn_kerken \in {Directory(q) : q \in SeedLists}
    /\ kerk_urls = SeedsOf(pkn_kerken)
    /\ web \in AlignWebs
    /\ lxml \in BOOLEAN
    /\ session = "none"
    /\ cache = [u \in {} |-> <<0, 0>>]
    /\ coros = [c \in {} |-> [url |-> <<>>, state |-> "finished", text |-> <<>>]]
    /\ gets = [u \in {} |-> 0]
    /\ log = {}
    /\ tasks = <<>>
    /\ running = 0
    /\ done_queue = <<>>
    /\ kerk_emails = <<>>
    /\ progress = 0
    /\ mainpc = "init"
    /\ expired = 0
    /\ cell = "run"
    /\ rows = <<>>
    /\ df = <<>>
    /\ prev = [set |-> FALSE, val |-> <<>>]

AlignSpec == AlignInit /\ [][Next]_vars

(***************************************************************************)
(* get_contact_page_urls on its own: lines 40-47 applied to a page made of *)
(* any anchors and to any keyword list within the bounds.                  *)
(***************************************************************************)
MixedC == <<"/","C","o","n","t","a","c","t">>
UpperInfo == <<"/","I","N","F","O">>
Hrefs == {RelC, MixedC, Home, AbsC, UpperInfo}
KeywordChoices ==
    {contact_page_keywords[1], <<"C","o","n","t","a","c","t">>, contact_page_keywords[6], <<"I","N","F","O">>}

PageOf(hrefs) == Concat([n \in 1..Len(hrefs) |-> A(hrefs[n])])

DiscoverInit ==
    /\ \E hrefs \in SeqsUpTo(Hrefs, MaxList) :
       \E keywords \in SeqsUpTo(KeywordChoices, MaxList) :
          call = [state |-> "ready", hrefs |-> hrefs, html |-> PageOf(hrefs),
                  keywords |-> keywords, result |-> <<>>]
    /\ pkn_kerken = <<>>
    /\ kerk_urls = <<>>
    /\ web \in {[u \in {SeedA, SeedB, AbsC} |-> TransportError]}
    /\ lxml = TRUE
    /\ session = "none"
    /\ cache = [u \in {} |-> <<0, 0>>]
    /\ coros = [c \in {} |-> [url |-> <<>>, state |-> "finished", text |-> <<>>]]
    /\ gets = [u \in {} |-> 0]
    /\ log = {}
    /\ tasks = <<>>
    /\ running = 0
    /\ done_queue = <<>>
    /\ kerk_emails = <<>>
    /\ progress = 0
    /\ mainpc = "init"
    /\ expired = 0
    /\ cell = "run"
    /\ rows = <<>>
    /\ df = <<>>
    /\ prev = [set |-> FALSE, val |-> <<>>]

\* lines 40-47 on call.html with call.keywords
CallDiscover ==
    /\ call.state = "ready"
    /\ call' = [call EXCEPT !.state = "returned",
                            !.result = contact_urls(call.html, call.keywords)]
    /\ UNCHANGED <<pkn_kerken, kerk_urls, web, lxml, session, cache, coros,
                   gets, log, tasks, running, done_queue, kerk_emails,
                   progress, mainpc, expired, cell, rows, df, prev>>

DiscoverSpec == DiscoverInit /\ [][CallDiscover]_vars

(***************************************************************************)
(* The run on a network where the request for some URL never ends, under   *)
(* fair scheduling: the response step does not exist for a task that waits *)
(* for such a request.                                                     *)
(***************************************************************************)
Hang == [kind |-> "hang", text |-> <<>>]

HangWebs ==
    {[u \in {SeedA, SeedB, AbsC} |->
        IF u = SeedA THEN a ELSE IF u = SeedB THEN b ELSE c] :
        a \in {Hang, Ok(PageAbs)}, b \in {Ok(PageAbs), Ok(PageRel), HttpError},
        c \in {Hang, Ok(PageMail)}}

\* task i is suspended in a request that never ends
Stalled(i) ==
    /\ tasks[i].pc \in {"wait_main", "wait_page"}
    /\ ResponseFor(coros[tasks[i].coro].url).kind = "hang"

HangInit ==
    /\ call = NoCall
    /\ pkn_kerken \in {Directory(q) : q \in SeedLists}
    /\ kerk_urls = SeedsOf(pkn_kerken)
    /\ web \in HangWebs
    /\ lxml \in BOOLEAN
    /\ session = "none"
    /\ cache = [u \in {} |-> <<0, 0>>]
    /\ coros = [c \in {} |-> [url |-> <<>>, state |-> "finished", text |-> <<>>]]
    /\ gets = [u \in {} |-> 0]
    /\ log = {}
    /\ tasks = <<>>
    /\ running = 0
    /\ done_queue = <<>>
    /\ kerk_emails = <<>>
    /\ progress = 0
    /\ mainpc = "init"
    /\ expired = 0
    /\ cell = "run"
    /\ rows = <<>>
    /\ df = <<>>
    /\ prev = [set |-> FALSE, val |-> <<>>]

HangNext ==
    \/ MainStart
    \/ \E i \in 1..Len(tasks) : TaskStart(i)
    \/ \E i \in 1..Len(tasks) : ~Stalled(i) /\ Respond(i)
    \/ \E i \in 1..Len(tasks) : Extract(i)
    \/ \E i \in 1..Len(tasks) : Return(i)
    \/ Fold

HangSpec == HangInit /\ [][HangNext]_vars /\ WF_vars(HangNext)

(***************************************************************************)
(* Properties.                                                             *)
(***************************************************************************)
Finished(i) == tasks[i].pc \in {"done", "raised", "cancelled"}

\* C1: when main has returned, the keys of the ResultMap are exactly the
\* seeds it was given, and no key occurs in two entries.
C1_KeysAreTheSeeds ==
    mainpc = "returned" =>
        /\ Keys(kerk_emails) = Range(kerk_urls)
        /\ \A m, n \in 1..Len(kerk_emails) :
              m # n => kerk_emails[m].key # kerk_emails[n].key

\* main has returned for one seed given twice, both fetches of whose page
\* were tried and one of them was answered with an error
C1_Witness ==
    /\ mainpc = "returned"
    /\ N = 2
    /\ kerk_urls[1] = kerk_urls[2]
    /\ \E l \in log : l.at = "fetch" /\ l.level = "ERROR"
    /\ \E l \in log : l.err = "RuntimeError: reuse"

\* the call of fetch for url is a cache hit on a coroutine that has finished,
\* and the text that coroutine returned to its first caller
HitFinished(url) == url \in DOMAIN cache /\ coros[cache[url]].state = "finished"
CachedText(url) == coros[cache[url]].text
NextPage(i) == tasks[i].contact_pages[Len(tasks[i].emails) + 1]

\* C2: a fetch of a URL whose earlier fetch has completed and whose entry is
\* still in the cache issues no GET and hands its caller the text that the
\* first fetch returned (the caller then works on that text).
C2_CacheHitReturnsFirstText ==
    [][\A i \in 1..Len(tasks) :
        /\ (TaskStart(i) /\ HitFinished(tasks[i].kerk_url)) =>
              /\ gets' = gets
              /\ tasks'[i].pc = "pages"
              /\ tasks'[i].contact_pages =
                    Discover(tasks[i].kerk_url, CachedText(tasks[i].kerk_url)).pages
        /\ (Extract(i) /\ HitFinished(NextPage(i))) =>
              /\ gets' = gets
              /\ tasks'[i].emails =
                    Append(tasks[i].emails, Extracted(CachedText(NextPage(i))).emails)
      ]_vars

\* C3: no call of fetch raises to its caller, and a request that ends with a
\* transport error or a non-success status makes fetch return the empty
\* string and write an error line naming the URL.
C3_FetchNeverRaises ==
    [][\A i \in 1..Len(tasks) :
        /\ TaskStart(i) => ~Raises(FetchOutcome(tasks[i].kerk_url))
        /\ Extract(i) => ~Raises(FetchOutcome(NextPage(i)))
        /\ (Respond(i) /\ ResponseFor(coros[tasks[i].coro].url).kind # "ok") =>
              /\ coros'[tasks[i].coro].text = <<>>
              /\ \E l \in log' :
                    /\ l.level = "ERROR"
                    /\ l.at = "fetch"
                    /\ l.url = coros[tasks[i].coro].url
      ]_vars

\* C4: no exception leaves a task or main, and when main has returned every
\* task has completed and its seed is a key of the ResultMap.
C4_NoSeedErrorEndsTheBatch ==
    /\ \A i \in 1..Len(tasks) : tasks[i].pc # "raised"
    /\ mainpc # "failed"
    /\ mainpc = "returned" =>
          /\ \A i \in 1..Len(tasks) :
                /\ tasks[i].pc = "done"
                /\ \E n \in 1..Len(kerk_emails) :
                      kerk_emails[n].key = tasks[i].kerk_url
          /\ \A n \in 1..Len(kerk_emails) :
                \E j \in 1..Len(tasks) :
                    /\ kerk_emails[n].key = tasks[j].kerk_url
                    /\ kerk_emails[n].value = tasks[j].emails
                    /\ Len(tasks[j].emails) = Len(tasks[j].contact_pages)

\* main has returned after the extractor of one seed caught an exception
\* while another seed's contact page gave an address
C4_Witness ==
    /\ mainpc = "returned"
    /\ N = 2
    /\ kerk_urls[1] # kerk_urls[2]
    /\ \E l \in log : l.at = "extract_emails_from_page" /\ l.level = "ERROR"
    /\ \E n \in 1..Len(kerk_emails) : kerk_emails[n].value = << <<Mail1>> >>
    /\ \E n \in 1..Len(kerk_emails) : kerk_emails[n].value = << <<MsgAwaited>> >>

Terminal ==
    /\ mainpc = "returned"
    /\ session = "closed"
    /\ Len(tasks) = N
    /\ \A i \in 1..N : tasks[i].pc = "done"
    /\ Keys(kerk_emails) = Range(kerk_urls)

\* C5: under fair scheduling, and with every request answered, main
\* eventually reaches its terminal state: every task completed, the session
\* closed and the ResultMap returned.
C5_MainTerminates == <>Terminal

\* the terminal state after two tasks that each waited for two requests
C5_Witness ==
    /\ Terminal
    /\ N = 2
    /\ \A i \in 1..N : Len(tasks[i].contact_pages) >= 1
    /\ \E u \in DOMAIN gets : gets[u] >= 1 /\ u \notin Range(kerk_urls)

\* C6: the session is open before any task starts, it is never closed while
\* a task is still pending or in flight, no task calls get on a closed
\* session, and it is closed on every exit of main.
C6_SessionScoped ==
    /\ (\E i \in 1..Len(tasks) : tasks[i].pc # "pending") => session # "none"
    /\ session = "closed" => \A i \in 1..Len(tasks) : Finished(i)
    /\ \A l \in log : l.err # "RuntimeError: Session is closed"
    /\ mainpc \in {"returned", "aborted", "failed"} => session = "closed"

\* a dict as a mapping: two dicts are equal when they hold the same items
Items(d) == {<<d[n].key, d[n].value>> : n \in 1..Len(d)}

\* C7: two runs of main on the same seeds and the same web return the same
\* ResultMap, whatever the order in which their tasks ran and completed.
C7_OrderIndependent ==
    (prev.set /\ mainpc = "returned") => Items(kerk_emails) = Items(prev.val)

EntriesWith(e) ==
    {n \in 1..Len(kerk_emails) :
        \E p \in 1..Len(kerk_emails[n].value) :
            \E j \in 1..Len(kerk_emails[n].value[p]) :
                kerk_emails[n].value[p][j] = e}

\* C9: in the written table no email occurs in two rows, the row of an email
\* carries the first seed, in the iteration order of the ResultMap, for which
\* it was found, and deduplicating again changes nothing.
C9_FirstOccurrenceSurvives ==
    cell = "written" =>
        /\ \A m, n \in 1..Len(df) : m # n => df[m].email # df[n].email
        /\ \A n \in 1..Len(df) :
              /\ EntriesWith(df[n].email) # {}
              /\ \A k \in EntriesWith(df[n].email) :
                    \E f \in EntriesWith(df[n].email) :
                        f <= k /\ df[n].url = kerk_emails[f].key /\
                        \A g \in EntriesWith(df[n].email) : f <= g
        /\ drop_duplicates(df) = df

\* the table written for a ResultMap whose two seeds both gave the same
\* address: its one row carries the first of them
C9_Witness ==
    /\ cell = "written"
    /\ Len(kerk_emails) = 2
    /\ EntriesWith(Mail1) = {1, 2}
    /\ \E n \in 1..Len(df) : df[n].email = Mail1 /\ df[n].url = kerk_emails[1].key

\* C10: the written table has a row (url, null) for every seed of the
\* ResultMap for which no email was found.
C10_SeedsWithoutEmailKeepARow ==
    cell = "written" =>
        \A n \in 1..Len(kerk_emails) :
            (\A p \in 1..Len(kerk_emails[n].value) : kerk_emails[n].value[p] = <<>>) =>
                \E m \in 1..Len(df) : df[m].url = kerk_emails[n].key /\ df[m].null

\* a syntactically valid absolute http or https URL: the scheme, a host of
\* letters, digits, dots and hyphens, and no whitespace after it
IsAbsoluteHttpUrl(s) ==
    \E p \in {<<"h","t","t","p",":","/","/">>, <<"h","t","t","p","s",":","/","/">>} :
        /\ StartsWith(s, p)
        /\ Len(s) > Len(p)
        /\ IsDomainChar(s[Len(p) + 1])
        /\ \A j \in (Len(p) + 1)..Len(s) : ~IsSpace(s[j])

Malformed(website) == website.null \/ ~IsAbsoluteHttpUrl(website.str)

\* the strings that were passed to fetch
Fetched == {coros[c].url : c \in DOMAIN coros}

\* C11: once the seed list is built, the website of a record that is not a
\* syntactically valid absolute http/https URL is no seed, no task, was never
\* passed to fetch and is no key of the ResultMap.
C11_MalformedSeedsRemoved ==
    mainpc # "load" =>
        \A n \in 1..Len(pkn_kerken) :
            LET w == pkn_kerken[n].website
            IN  (Malformed(w) /\ ~w.null) =>
                    /\ w.str \notin Range(kerk_urls)
                    /\ \A i \in 1..Len(tasks) : tasks[i].kerk_url # w.str
                    /\ w.str \notin Fetched
                    /\ w.str \notin Keys(kerk_emails)

\* C12: for the single seed https://example.org, whose homepage links to
\* /contact-us and whose contact page holds info@example.org, main returns
\* {seed: [[info@example.org]]} and the written table has the row
\* (seed, info@example.org).
C12_ScenarioResult ==
    /\ mainpc = "returned" =>
          kerk_emails = <<[key |-> Example, value |-> << <<InfoMail>> >>]>>
    /\ cell = "written" =>
          \E n \in 1..Len(df) :
              df[n] = [url |-> Example, null |-> FALSE, email |-> InfoMail]

\* the call of fetch for url comes while an earlier call for it is suspended
\* in its request
Overlaps(url) == url \in DOMAIN cache /\ coros[cache[url]].state = "suspended"
BodyOf(url) == TextOf(ResponseFor(url))

\* C13: a fetch of a URL that overlaps an unfinished fetch of the same URL
\* either waits for a request of its own (the duplicate GET) or gives its
\* caller the body of the URL; the caller never works on an error instead.
C13_OverlappingFetchesHarmless ==
    [][\A i \in 1..Len(tasks) :
        /\ (TaskStart(i) /\ Overlaps(tasks[i].kerk_url)) =>
              \/ tasks'[i].pc = "wait_main"
              \/ /\ tasks'[i].pc = "pages"
                 /\ tasks'[i].contact_pages =
                       Discover(tasks[i].kerk_url, BodyOf(tasks[i].kerk_url)).pages
        /\ (Extract(i) /\ Overlaps(NextPage(i))) =>
              \/ tasks'[i].pc = "wait_page"
              \/ tasks'[i].emails =
                    Append(tasks[i].emails, Extracted(BodyOf(NextPage(i))).emails)
      ]_vars

\* the fetches that task i started and that are in flight
InFlight(i) == {c \in DOMAIN coros : c[1] = i /\ coros[c].state = "suspended"}

\* C14: a task has at most one fetch in flight; the fetch of its k-th contact
\* page has started only after link discovery returned and the k-1 pages
\* before it were fetched and extracted, and while it is in flight the task
\* does nothing else.
C14_PerSeedSerial ==
    \A i \in 1..Len(tasks) :
        /\ Cardinality(InFlight(i)) <= 1
        /\ \A c \in InFlight(i) : tasks[i].coro = c
        /\ \A c \in DOMAIN coros :
              (c[1] = i /\ c[2] >= 1) =>
                  /\ tasks[i].pc \notin {"pending", "wait_main"}
                  /\ c[2] <= Len(tasks[i].contact_pages)
                  /\ Len(tasks[i].emails) >= c[2] - 1
                  /\ coros[c].state = "suspended" =>
                        /\ tasks[i].pc = "wait_page"
                        /\ Len(tasks[i].emails) = c[2] - 1
        /\ (<<i, 0>> \in DOMAIN coros /\ coros[<<i, 0>>].state = "suspended") =>
              tasks[i].pc = "wait_main" /\ tasks[i].contact_pages = <<>>

\* the second contact page of one seed is in flight, after its first page
\* was extracted, while the task of another seed waits for its own request
C14_Witness ==
    /\ N = 2
    /\ kerk_urls[1] # kerk_urls[2]
    /\ \E i, j \in 1..Len(tasks) :
          /\ i # j
          /\ InFlight(i) = {<<i, 2>>}
          /\ Len(tasks[i].emails) = 1
          /\ InFlight(j) # {}

\* the body the web holds for a URL, "" where a request for it fails
PageText(url) ==
    IF url \in DOMAIN web /\ web[url].kind = "ok" THEN web[url].text ELSE <<>>

\* what extract_emails_from_page can return for a page: the matches of its
\* body, or the text of the exception it caught
ExtractorResults(page) ==
    {<<MsgReuse>>}
        \cup (IF IsRequestable(page)
              THEN {EmailsOf[PageText(page)], <<MsgAwaited>>}
              ELSE {<<>>})

\* C15: a task carries its seed unchanged; its k-th per-page list is a
\* result of the extractor for its k-th contact candidate, in the order of
\* the link discoverer, and when it returns it has one list per candidate,
\* duplicates included.
C15_PositionalAlignment ==
    \A i \in 1..Len(tasks) :
        /\ tasks[i].kerk_url = kerk_urls[i]
        /\ Len(tasks[i].emails) <= Len(tasks[i].contact_pages)
        /\ \A k \in 1..Len(tasks[i].emails) :
              tasks[i].emails[k] \in ExtractorResults(tasks[i].contact_pages[k])
        /\ tasks[i].pc = "done" =>
              Len(tasks[i].emails) = Len(tasks[i].contact_pages)

\* a task has returned for the candidates /contact and http://c.nl/contact
\* with nothing for the first and the address for the second, and main has
\* stored that result
C15_Witness ==
    /\ \E i \in 1..Len(tasks) :
          /\ tasks[i].pc = "done"
          /\ tasks[i].contact_pages = <<RelC, AbsC>>
          /\ tasks[i].emails = << <<>>, <<Mail1>> >>
    /\ \E n \in 1..Len(kerk_emails) : kerk_emails[n].value = << <<>>, <<Mail1>> >>

\* the hrefs, in their order, that contain a keyword when href and keyword
\* are both compared in lower case
RECURSIVE SelectIgnoringCase(_, _)
SelectIgnoringCase(hrefs, keywords) ==
    IF hrefs = <<>> THEN <<>>
    ELSE (IF \E n \in 1..Len(keywords) :
                Contains(Lower(Head(hrefs)), Lower(keywords[n]))
          THEN <<Head(hrefs)>> ELSE <<>>)
         \o SelectIgnoringCase(Tail(hrefs), keywords)

\* C16: the link discoverer returns, in document order, with duplicates and
\* as written, exactly the hrefs that contain a keyword, href and keyword
\* compared without regard to case.
C16_SelectsIgnoringCase ==
    call.state = "returned" =>
        call.result = SelectIgnoringCase(call.hrefs, call.keywords)

\* task i has completed and main has stored its result
Folded(i) ==
    /\ tasks[i].pc = "done"
    /\ \A n \in 1..Len(done_queue) : done_queue[n] # i
    /\ tasks[i].kerk_url \in Keys(kerk_emails)

\* every task is either stalled in a request that never ends or folded into
\* the ResultMap; main has returned exactly if no task is stalled
HangSettled ==
    /\ mainpc # "init"
    /\ Len(tasks) = N
    /\ \A i \in 1..N : Stalled(i) \/ Folded(i)
    /\ progress = Cardinality({i \in 1..N : Folded(i)})
    /\ mainpc = "returned" <=> \A i \in 1..N : Folded(i)
    /\ mainpc = "waiting" <=> \E i \in 1..N : Stalled(i)

\* C17: under fair scheduling, with requests that never end, the run settles
\* in a state where only the tasks that wait for such a request are stalled
\* and every other task has completed and is folded into the ResultMap.
C17_HangIsolation == <>[]HangSettled

\* the task of the first seed is stalled in the request for its page, the
\* task of the other seed has fetched its contact page and is folded, and
\* main waits
C17_Witness ==
    /\ N = 2
    /\ HangSettled
    /\ Stalled(1)
    /\ Folded(2)
    /\ kerk_urls[1] # kerk_urls[2]
    /\ Len(tasks[2].emails) = 1
    /\ mainpc = "waiting"

FoldedCount == Cardinality({i \in 1..Len(tasks) : Folded(i)})

\* the bar advances by one and main takes the task that finished first
\* among those not yet folded and stores its result
AdvancesWithFold ==
    /\ progress' = progress + 1
    /\ done_queue # <<>>
    /\ done_queue' = Tail(done_queue)
    /\ <<tasks[Head(done_queue)].kerk_url, tasks[Head(done_queue)].emails>>
          \in Items(kerk_emails')

TakesFromQueue == done_queue' # done_queue /\ Len(done_queue') <= Len(done_queue)

ProgressSteps ==
    /\ (progress' # progress) => AdvancesWithFold
    /\ TakesFromQueue => AdvancesWithFold

ProgressIsFolded ==
    /\ progress = FoldedCount
    /\ progress <= N
    /\ (mainpc = "returned") => (progress = N)

\* C18: the progress count is the number of task results folded so far, it
\* never exceeds the number of seeds and equals it when main has returned;
\* it advances by one exactly at the steps that take a finished task from
\* as_completed, in the order in which the tasks finished, and store its
\* result.
C18_ProgressCounts == []ProgressIsFolded /\ [][ProgressSteps]_vars

\* the second seed of the list finished first and is the one folded, the
\* bar shows one of two, and the first seed is still at work
C18_Witness ==
    /\ N = 2
    /\ kerk_urls[1] # kerk_urls[2]
    /\ progress = 1
    /\ Folded(2)
    /\ ~Finished(1)
    /\ Keys(kerk_emails) = {kerk_urls[2]}

\* no step sends a request for a URL whose entry is in the cache
NoGetWhileCached ==
    \A url \in DOMAIN cache :
        (IF url \in DOMAIN gets' THEN gets'[url] ELSE 0) = GetsOf(url)

\* every request after the first for a URL follows an expiry of an entry
OneGetPerEntry == \A url \in DOMAIN gets : gets[url] <= 1 + expired

\* C19: while the entry of a URL is in the cache no GET is issued for it, so
\* within a run a URL is requested at most once per entry the cache held
\* for it, whatever the interleaving and whether or not the request failed.
C19_OneGetWhileCached == []OneGetPerEntry /\ [][NoGetWhileCached]_vars

\* two tasks have completed after both asked for the same URL; its one
\* request failed, the second call found the entry and nothing was sent again
C19_Witness ==
    /\ N = 2
    /\ \A i \in 1..Len(tasks) : tasks[i].pc = "done"
    /\ expired = 0
    /\ \E url \in DOMAIN cache :
          /\ url \in DOMAIN web
          /\ web[url].kind # "ok"
          /\ GetsOf(url) = 1
          /\ \E l \in log : l.url = url /\ l.err = "RuntimeError: reuse"

\* get_contact_page_urls has returned to task i
Discovered(i) == tasks[i].pc \notin {"pending", "wait_main"}

\* its try block raised: the tree builder is missing, or the fetch of the
\* seed page was a cache hit, for which the task has no coroutine of its own
DiscoveryFailed(i) == Discovered(i) /\ (~lxml \/ <<i, 0>> \notin DOMAIN coros)

ErrorTexts == {MsgReuse, MsgAwaited, MsgNoLxml}

\* the task asked for no contact page
NoPageFetch(i) == \A c \in DOMAIN coros : c[1] = i => c[2] = 0

FailedDiscoveryIsACandidate(i) ==
    /\ Len(tasks[i].contact_pages) = 1
    /\ tasks[i].contact_pages[1] \in ErrorTexts
    /\ (tasks[i].pc = "done") =>
          /\ tasks[i].contact_pages[1] \in Fetched
          /\ Len(tasks[i].emails) = 1
          /\ tasks[i].emails[1] \in ExtractorResults(tasks[i].contact_pages[1])

EmptyDiscoveryFetchesNothing(i) ==
    (tasks[i].contact_pages = <<>>) =>
        /\ tasks[i].emails = <<>>
        /\ NoPageFetch(i)

\* C20: a task whose link discovery failed has the text of the exception as
\* its one contact candidate, calls fetch with it and returns exactly one
\* per-page list, which is what the ResultMap holds for its seed; a task
\* whose discovery found no anchor has no candidate, no per-page list and
\* asks for no further page.
C20_ErrorTextIsACandidate ==
    /\ \A i \in 1..Len(tasks) :
          /\ DiscoveryFailed(i) => FailedDiscoveryIsACandidate(i)
          /\ (Discovered(i) /\ ~DiscoveryFailed(i)) => EmptyDiscoveryFetchesNothing(i)
    /\ (mainpc = "returned") =>
          \A n \in 1..Len(kerk_emails) :
              /\ (\A i \in 1..N : tasks[i].kerk_url = kerk_emails[n].key => DiscoveryFailed(i))
                    => Len(kerk_emails[n].value) = 1
              /\ (\A i \in 1..N : tasks[i].kerk_url = kerk_emails[n].key =>
                        ~DiscoveryFailed(i) /\ tasks[i].contact_pages = <<>>)
                    => kerk_emails[n].value = <<>>

\* main has returned for a seed given twice whose page has no contact link:
\* one task found no candidate and asked for nothing more, the other caught
\* the exception of its fetch and asked for the page named by its text
C20_Witness ==
    /\ mainpc = "returned"
    /\ lxml
    /\ \E i, j \in 1..N :
          /\ ~DiscoveryFailed(i)
          /\ tasks[i].contact_pages = <<>>
          /\ DiscoveryFailed(j)
          /\ tasks[j].contact_pages[1] \in Fetched
          /\ tasks[j].emails = << <<>> >>
    /\ \E l \in log : l.at = "fetch" /\ l.err = "InvalidURL" /\ l.url \in ErrorTexts

====
